---- MODULE Spec2Model ----
(***************************************************************************)
(* FilesStore (app/lib/stores/files.ts): the in-memory mirror of the       *)
(* container file system, its watch-event reconciler, the direct write     *)
(* path saveFile and the ledger of original contents (#modifiedFiles).     *)
(*                                                                         *)
(* Paths and store property names are sequences of one-character strings,  *)
(* so that String.prototype.startsWith, the trailing-slash regex and       *)
(* path.relative are computed character by character.  File contents are   *)
(* sequences of code points, watch buffers are sequences of bytes.         *)
(***************************************************************************)
EXTENDS Integers, Sequences, FiniteSets, TLC

(* ---------------------------------------------------------------------- *)
(* Bounds of the model                                                      *)
(* ---------------------------------------------------------------------- *)
MaxEvents == 3
MaxStoreEvents == 2
MaxCalls == 2

(* ---------------------------------------------------------------------- *)
(* Paths                                                                    *)
(* ---------------------------------------------------------------------- *)
workdir == <<"/", "w">>
PathS == workdir \o <<"/", "s">>
PathSSlash == PathS \o <<"/">>
PathSA == PathS \o <<"/", "a">>
PathS2 == PathS \o <<"2">>

\* the paths callers pass to saveFile
SavePaths == {PathSA, PathS, workdir}

StartsWith(s, prefix) ==
  /\ Len(prefix) <= Len(s)
  /\ SubSeq(s, 1, Len(prefix)) = prefix

\* path.replace(/\/+$/g, '')
StripOneTrailingSlash(path) ==
  IF path # <<>> /\ path[Len(path)] = "/" THEN SubSeq(path, 1, Len(path) - 1) ELSE path
RECURSIVE StripTrailingSlashes(_)
StripTrailingSlashes(path) ==
  IF path # <<>> /\ path[Len(path)] = "/"
    THEN StripTrailingSlashes(SubSeq(path, 1, Len(path) - 1))
    ELSE path

\* the non-empty segments of a path, in order
RECURSIVE SplitPath(_, _, _)
SplitPath(s, cur, acc) ==
  IF s = <<>>
    THEN (IF cur = <<>> THEN acc ELSE Append(acc, cur))
    ELSE IF Head(s) = "/"
      THEN SplitPath(Tail(s), <<>>, IF cur = <<>> THEN acc ELSE Append(acc, cur))
      ELSE SplitPath(Tail(s), Append(cur, Head(s)), acc)

RECURSIVE CommonLen(_, _)
CommonLen(a, b) ==
  IF a = <<>> \/ b = <<>> \/ Head(a) # Head(b)
    THEN 0
    ELSE 1 + CommonLen(Tail(a), Tail(b))

RECURSIVE JoinPath(_)
JoinPath(segs) ==
  IF segs = <<>> THEN <<>>
  ELSE IF Len(segs) = 1 THEN Head(segs)
  ELSE Head(segs) \o <<"/">> \o JoinPath(Tail(segs))

\* nodePath.relative(from, to) for absolute paths without "." or ".." segments
Relative(from, to) ==
  LET f == SplitPath(from, <<>>, <<>>)
      t == SplitPath(to, <<>>, <<>>)
      n == CommonLen(f, t)
      ups == [i \in 1..(Len(f) - n) |-> <<".", ".">>]
  IN JoinPath(ups \o SubSeq(t, n + 1, Len(t)))

(* ---------------------------------------------------------------------- *)
(* Binary classification and decoding of watch buffers                     *)
(* ---------------------------------------------------------------------- *)
ChunkLength == 100
ReplacementChar == <<65533>>

NoBuffer == [defined |-> FALSE, bytes |-> <<>>]
Buf(bytes) == [defined |-> TRUE, bytes |-> bytes]

\* the buffers watch events carry: none, the text "x", a NUL byte
Buffers == {NoBuffer, Buf(<<120>>), Buf(<<0>>)}

IsContinuation(b) == b >= 128 /\ b <= 191

\* UTF-8 decoding of one- and two-byte sequences; bad is what an ill-formed
\* byte yields: <<ReplacementChar>> (lossy), or <<-1>> to mark a fatal error
RECURSIVE Utf8(_, _)
Utf8(bytes, bad) ==
  IF bytes = <<>> THEN <<>>
  ELSE IF Head(bytes) < 128 THEN <<Head(bytes)>> \o Utf8(Tail(bytes), bad)
  ELSE IF /\ Head(bytes) >= 194 /\ Head(bytes) <= 223
          /\ Len(bytes) >= 2 /\ IsContinuation(bytes[2])
    THEN <<(Head(bytes) - 192) * 64 + (bytes[2] - 128)>>
           \o Utf8(SubSeq(bytes, 3, Len(bytes)), bad)
  ELSE bad \o Utf8(Tail(bytes), bad)

\* getEncoding(buffer, { chunkLength: 100 }) === 'binary'
isBinaryFile(buffer) ==
  IF ~buffer.defined THEN FALSE
  ELSE LET end == IF Len(buffer.bytes) < ChunkLength THEN Len(buffer.bytes) ELSE ChunkLength
           chunk == Utf8(SubSeq(buffer.bytes, 1, end), ReplacementChar)
       IN \E i \in 1..Len(chunk) : chunk[i] = ReplacementChar[1] \/ chunk[i] <= 8

\* utf8TextDecoder is fatal: an ill-formed buffer throws and yields ''
decodeFileContent(buffer) ==
  IF ~buffer.defined \/ Len(buffer.bytes) = 0 THEN <<>>
  ELSE LET text == Utf8(buffer.bytes, <<-1>>)
       IN IF \E i \in 1..Len(text) : text[i] = -1 THEN <<>> ELSE text

(* ---------------------------------------------------------------------- *)
(* The FileMap store                                                        *)
(* ---------------------------------------------------------------------- *)
FileDirent(content, isBinary) == [type |-> "file", content |-> content, isBinary |-> isBinary]
FolderDirent == [type |-> "folder"]

\* the own enumerable property names of the MapStore object `files`
StoreKeys == {
  <<"g", "e", "t">>, <<"l", "c">>, <<"l", "i", "s", "t", "e", "n">>,
  <<"n", "o", "t", "i", "f", "y">>, <<"o", "f", "f">>, <<"s", "e", "t">>,
  <<"s", "u", "b", "s", "c", "r", "i", "b", "e">>, <<"v", "a", "l", "u", "e">>,
  <<"s", "e", "t", "K", "e", "y">> }

Present(f, key) == key \in DOMAIN f
IsFile(f, key) == Present(f, key) /\ f[key].type = "file"
IsFolder(f, key) == Present(f, key) /\ f[key].type = "folder"

\* files.setKey(key, value) with a defined value
setKey(f, key, value) == [k \in DOMAIN f \cup {key} |-> IF k = key THEN value ELSE f[k]]

\* files.setKey(key, undefined)
setKeyUndefined(f, key) == [k \in DOMAIN f \ {key} |-> f[k]]

RECURSIVE setKeysUndefined(_, _)
setKeysUndefined(f, keys) ==
  IF keys = {} THEN f
  ELSE LET k == CHOOSE x \in keys : TRUE
       IN setKeysUndefined(setKeyUndefined(f, k), keys \ {k})

(* ---------------------------------------------------------------------- *)
(* Watch events and their reconciliation (#processEventBuffer)             *)
(* ---------------------------------------------------------------------- *)
EventTypes == {"add_dir", "remove_dir", "add_file", "change", "remove_file", "update_directory"}

Event(type, path, buffer) == [type |-> type, path |-> path, buffer |-> buffer]

\* the events the watcher may report: directory events on DirPaths, file
\* events on FilePaths
DirPaths == {PathS, PathSSlash, PathSA}
FilePaths == {PathSA, PathS2}

WatchEvents ==
  {Event(t, p, NoBuffer) : t \in {"add_dir", "remove_dir", "update_directory"}, p \in DirPaths}
    \cup {Event("remove_file", p, NoBuffer) : p \in FilePaths}
    \cup {Event(t, p, b) : t \in {"add_file", "change"}, p \in FilePaths, b \in Buffers}

\* one watcher callback reports one event, or a file's creation and first write
EventLists ==
  {<<e>> : e \in WatchEvents}
    \cup {<<Event("add_file", PathSA, b1), Event("change", PathSA, b2)>> :
             b1 \in Buffers, b2 \in Buffers}

\* the events on the paths saveFile is called with
StoreEventLists ==
  {<<e>> : e \in {w \in WatchEvents : /\ w.path \in SavePaths
                                       /\ w.type \in {"add_dir", "add_file", "change", "remove_file"}}}

\* events.flat(2): the buffered callback argument tuples <<events>>, flattened
RECURSIVE Flat2(_)
Flat2(events) ==
  IF events = <<>> THEN <<>> ELSE Head(events)[1] \o Flat2(Tail(events))

\* the keys `Object.entries(this.files)` enumerates: `files` is the store
\* object, not the FileMap it holds
DirentPathsOfFileMap(f) == DOMAIN f
DirentPaths(f) == StoreKeys

\* case 'remove_dir'
removeDir(f, sanitizedPath) ==
  setKeysUndefined(setKeyUndefined(f, sanitizedPath),
                   {direntPath \in DirentPaths(f) : StartsWith(direntPath, sanitizedPath)})

\* observer of the event stream: the current run add_file(p), change(p)*,
\* remove_file(p), the counter value before it, the number of its change
\* events and whether it spans more than one batch
MonIdle == [phase |-> "idle", path |-> <<>>, base |-> 0, changes |-> 0, split |-> FALSE]

MonStep(m, type, sanitizedPath, sizeBefore) ==
  CASE type = "add_file" ->
         [phase |-> "open", path |-> sanitizedPath, base |-> sizeBefore, changes |-> 0, split |-> FALSE]
    [] type = "change" ->
         IF m.phase = "open" /\ m.path = sanitizedPath
           THEN [m EXCEPT !.changes = m.changes + 1] ELSE MonIdle
    [] type = "remove_file" ->
         IF m.phase = "open" /\ m.path = sanitizedPath
           THEN [m EXCEPT !.phase = "closed"] ELSE MonIdle
    [] OTHER -> MonIdle

\* at the start of a batch: a run still open now spans batches
MonBatch(m) == IF m.phase = "open" THEN [m EXCEPT !.split = TRUE] ELSE MonIdle

NoEvent == Event("none", <<>>, NoBuffer)

\* #size after an event of the given type
SizeAfterCountingChange(n, type) ==
  CASE type \in {"add_file", "change"} -> n + 1
    [] type = "remove_file" -> n - 1
    [] OTHER -> n
SizeAfter(n, type) ==
  CASE type = "add_file" -> n + 1
    [] type = "remove_file" -> n - 1
    [] OTHER -> n

\* let content = ''; if (!isBinary) content = this.#decodeFileContent(buffer)
EventContentAlwaysDecoded(buffer, isBinary) == decodeFileContent(buffer)
EventContent(buffer, isBinary) == IF isBinary THEN <<>> ELSE decodeFileContent(buffer)

\* the body of the for loop: one event applied to st = [files, size] (and the
\* observers mon, last)
ApplyEvent(st, ev) ==
  LET sanitizedPath == StripTrailingSlashes(ev.path)
      isBinary == isBinaryFile(ev.buffer)
      content == EventContent(ev.buffer, isBinary)
  IN [files |->
        CASE ev.type = "add_dir" -> setKey(st.files, sanitizedPath, FolderDirent)
          [] ev.type = "remove_dir" -> removeDir(st.files, sanitizedPath)
          [] ev.type \in {"add_file", "change"} ->
               setKey(st.files, sanitizedPath, FileDirent(content, isBinary))
          [] ev.type = "remove_file" -> setKeyUndefined(st.files, sanitizedPath)
          [] OTHER -> st.files,
      size |-> SizeAfter(st.size, ev.type),
      mon |-> MonStep(st.mon, ev.type, sanitizedPath, st.size),
      last |-> ev]

RECURSIVE ApplyEventsReversed(_, _)
ApplyEventsReversed(st, watchEvents) ==
  IF watchEvents = <<>> THEN st
  ELSE ApplyEvent(ApplyEventsReversed(st, Tail(watchEvents)), Head(watchEvents))

\* for (const { type, path, buffer } of watchEvents)
RECURSIVE ApplyEvents(_, _)
ApplyEvents(st, watchEvents) ==
  IF watchEvents = <<>> THEN st
  ELSE ApplyEvents(ApplyEvent(st, Head(watchEvents)), Tail(watchEvents))

processEventBuffer(st, events) == ApplyEvents(st, Flat2(events))

(* ---------------------------------------------------------------------- *)
(* State                                                                    *)
(* ---------------------------------------------------------------------- *)
VARIABLES
  files,          \* the FileMap held by the `files` store: present keys only
  size,           \* #size
  modifiedFiles,  \* #modifiedFiles: path -> original content
  eventBuffer,    \* callbacks buffered by bufferWatchEvents, not yet flushed
  calls,          \* the saveFile calls in flight: idle, or awaiting the container write
  settled,        \* the saveFile call that settled last: its arguments and outcome
  nEvents,        \* number of watch events reported so far
  mon,            \* observer: see MonStep
  lastEvent,      \* observer: the event the reconciler applied last
  firstEdit,      \* observer: content at a path right before its first tree
                  \* update by saveFile since the last resetFileModifications
  tree,           \* the watched directory as the container has it: path -> "dir" | "file"
  uploadedFiles,  \* the uploadedFiles store: a list of UploadedFile records
  uploads,        \* the uploadFile calls
  imp,            \* the loadFromFileSystem call: its source tree, its rules, its position
  wcOps,          \* the container calls loadFromFileSystem has issued, with their outcome
  hook            \* useFileUploads: the rendered list, processedFiles, messages

\* the state of the tree store, and the state of uploads and of the hook
storeVars == <<files, size, modifiedFiles, eventBuffer, calls, settled, nEvents, mon, lastEvent, firstEdit, tree>>
ext == <<uploadedFiles, uploads, imp, wcOps, hook>>

vars == <<files, size, modifiedFiles, eventBuffer, calls, settled, nEvents, mon, lastEvent, firstEdit, tree,
          uploadedFiles, uploads, imp, wcOps, hook>>

MaxUploads == 2

CallIds == 1..MaxCalls
UploadIds == 1..MaxUploads
SaveContents == {<<110>>, <<>>}
WriteErrors == {"EIO", "ENOSPC"}

IdleCall ==
  [pc |-> "idle", filePath |-> <<>>, content |-> <<>>, oldContent |-> <<>>,
   preWrite |-> <<>>, writes |-> <<>>, result |-> "none", error |-> "none",
   overlap |-> FALSE]

\* a call of uploadFile: its file, its id, and the list it saw when it began
\* (observer)
IdleUpload == [pc |-> "idle", name |-> <<>>, content |-> <<>>, id |-> "", seen |-> <<>>]

NoEntry == [path |-> <<>>, kind |-> "none", content |-> <<>>, id |-> "", todo |-> <<>>, seen |-> <<>>]
NoError == [kind |-> "none", path |-> <<>>]

\* loadFromFileSystem before it is called
IdleImport ==
  [pc |-> "idle", source |-> [state |-> "missing", text |-> <<>>], ig |-> {}, stack |-> <<>>,
   cur |-> NoEntry, visited |-> {}, skipped |-> {}, error |-> NoError]

\* the hook after its first render: the list is empty, the effect is due
MountedHook ==
  [rendered |-> <<>>, effectPending |-> TRUE, processed |-> {}, messages |-> <<>>, awaiting |-> 0]

Init ==
  /\ uploadedFiles = <<>>
  /\ uploads = [u \in UploadIds |-> IdleUpload]
  /\ imp = IdleImport
  /\ wcOps = <<>>
  /\ hook = MountedHook
  /\ files = <<>>
  /\ size = 0
  /\ modifiedFiles = <<>>
  /\ eventBuffer = <<>>
  /\ calls = [c \in CallIds |-> IdleCall]
  /\ settled = IdleCall
  /\ nEvents = 0
  /\ mon = MonIdle
  /\ lastEvent = NoEvent
  /\ firstEdit = <<>>
  /\ tree = <<>>

(* ---------------------------------------------------------------------- *)
(* The watcher and the batcher (bufferWatchEvents)                         *)
(* ---------------------------------------------------------------------- *)
\* the watcher calls the buffered callback with one list of events
Watch(evs) ==
  /\ eventBuffer' = Append(eventBuffer, <<evs>>)
  /\ nEvents' = nEvents + Len(evs)
  /\ UNCHANGED <<files, size, modifiedFiles, calls, settled, mon, lastEvent, firstEdit>>

\* the state #processEventBuffer starts from
StoreState == [files |-> files, size |-> size, mon |-> MonBatch(mon), last |-> lastEvent]

\* the batcher flushes: #processEventBuffer runs on everything buffered
Flush ==
  /\ eventBuffer # <<>>
  /\ LET st == processEventBuffer(StoreState, eventBuffer)
     IN /\ files' = st.files
        /\ size' = st.size
        /\ mon' = st.mon
        /\ lastEvent' = st.last
  /\ eventBuffer' = <<>>
  /\ UNCHANGED <<modifiedFiles, calls, settled, nEvents, firstEdit, tree, ext>>

(* ---------------------------------------------------------------------- *)
(* saveFile                                                                 *)
(* ---------------------------------------------------------------------- *)
\* unreachable(message): throws
unreachable(message) == "Unreachable"

\* getFile(filePath)?.content, as [defined, content]
getFileContent(f, filePath) ==
  IF IsFile(f, filePath)
    THEN [defined |-> TRUE, content |-> f[filePath].content]
    ELSE [defined |-> FALSE, content |-> <<>>]

\* !oldContent
Falsy(oldContent) == ~oldContent.defined \/ oldContent.content = <<>>

NextCall(c) == calls[c].pc = "idle" /\ \A d \in CallIds : d < c => calls[d].pc # "idle"

\* the calls awaiting their container write to filePath; a call that shares
\* its await with another call on its path is marked overlap (observer)
InFlightOn(filePath) == {d \in CallIds : calls[d].pc = "writing" /\ calls[d].filePath = filePath}

\* saveFile from its call up to the await of webcontainer.fs.writeFile, or up
\* to the throw that rejects it before any write
SaveFileBegin(c, filePath, content) ==
  /\ NextCall(c)
  /\ LET relativePath == Relative(workdir, filePath)
         oldContent == getFileContent(files, filePath)
         call == [IdleCall EXCEPT !.filePath = filePath, !.content = content]
     IN IF relativePath = <<>>
          THEN /\ settled' = [call EXCEPT !.pc = "rejected", !.error = "EINVAL"]
               /\ calls' = calls
        ELSE IF Falsy(oldContent)
          THEN /\ settled' = [call EXCEPT !.pc = "rejected",
                                          !.error = unreachable("Expected content to be defined")]
               /\ calls' = calls
        ELSE /\ calls' = [d \in CallIds |->
                   IF d = c
                     THEN [call EXCEPT !.pc = "writing",
                                       !.oldContent = oldContent.content,
                                       !.preWrite = files[filePath].content,
                                       !.writes = <<[path |-> relativePath, content |-> content]>>,
                                       !.overlap = InFlightOn(filePath) # {}]
                   ELSE IF d \in InFlightOn(filePath)
                     THEN [calls[d] EXCEPT !.overlap = TRUE]
                   ELSE calls[d]]
             /\ settled' = settled
  /\ UNCHANGED <<files, size, modifiedFiles, eventBuffer, nEvents, mon, lastEvent, firstEdit, tree, ext>>

\* what the ledger holds for filePath after a successful write
RecordAlways(ledger, filePath, oldContent) == setKey(ledger, filePath, oldContent)
RecordOriginal(ledger, filePath, oldContent) ==
  IF ~Present(ledger, filePath) THEN setKey(ledger, filePath, oldContent) ELSE ledger

\* { type: 'file', content, isBinary: false }
SavedDirentKeepingBinary(content) == FileDirent(content, TRUE)
SavedDirent(content) == FileDirent(content, FALSE)

\* this.files.setKey(filePath, { type: 'file', content, isBinary: false })
\* after the await
TreeAfterSaveIfUnchanged(f, call) ==
  IF getFileContent(f, call.filePath).content = call.preWrite
    THEN setKey(f, call.filePath, SavedDirent(call.content))
    ELSE f
TreeAfterSave(f, call) == setKey(f, call.filePath, SavedDirent(call.content))

\* the container write resolves: saveFile runs to its end
SaveFileResolve(c) ==
  /\ calls[c].pc = "writing"
  /\ LET filePath == calls[c].filePath
     IN /\ modifiedFiles' = RecordOriginal(modifiedFiles, filePath, calls[c].oldContent)
        /\ files' = TreeAfterSave(files, calls[c])
        /\ firstEdit' = IF Present(firstEdit, filePath) THEN firstEdit
                        ELSE setKey(firstEdit, filePath, getFileContent(files, filePath))
  /\ settled' = [calls[c] EXCEPT !.pc = "done", !.result = "ok"]
  /\ calls' = [calls EXCEPT ![c] = IdleCall]
  /\ UNCHANGED <<size, eventBuffer, nEvents, mon, lastEvent, tree, ext>>

\* what saveFile throws when the container write rejected with err
Wrapped(err) == "Error"
Rethrown(err) == err

\* the container write rejects with err: the catch block logs and rethrows
SaveFileReject(c, err) ==
  /\ calls[c].pc = "writing"
  /\ settled' = [calls[c] EXCEPT !.pc = "rejected", !.result = err, !.error = Rethrown(err)]
  /\ calls' = [calls EXCEPT ![c] = IdleCall]
  /\ UNCHANGED <<files, size, modifiedFiles, eventBuffer, nEvents, mon, lastEvent, firstEdit, tree, ext>>

\* resetFileModifications()
ResetFileModifications ==
  /\ modifiedFiles' = <<>>
  /\ firstEdit' = <<>>
  /\ UNCHANGED <<files, size, eventBuffer, calls, settled, nEvents, mon, lastEvent, tree, ext>>

WatchReconciler ==
  \E evs \in EventLists : nEvents + Len(evs) <= MaxEvents /\ Watch(evs) /\ UNCHANGED <<tree, ext>>

WatchStore ==
  \E evs \in StoreEventLists : nEvents + Len(evs) <= MaxStoreEvents /\ Watch(evs) /\ UNCHANGED <<tree, ext>>

(* ---------------------------------------------------------------------- *)
(* A correct watch event stream: the events of changes to a real tree      *)
(* ---------------------------------------------------------------------- *)
MaxStreamEvents == 3

\* the directory of a path: the path up to its last separator
RECURSIVE Dirname(_)
Dirname(path) ==
  IF path = <<>> THEN <<>>
  ELSE IF path[Len(path)] = "/" THEN SubSeq(path, 1, Len(path) - 1)
  ELSE Dirname(SubSeq(path, 1, Len(path) - 1))

\* the directories of a path below the watched root (include: WORK_DIR/**)
AncestorsBelowRoot(path) ==
  {SubSeq(path, 1, i - 1) : i \in {j \in 1..Len(path) : path[j] = "/" /\ j - 1 > Len(workdir)}}

IsDirIn(t, path) == path = workdir \/ (path \in DOMAIN t /\ t[path] = "dir")
IsFileIn(t, path) == path \in DOMAIN t /\ t[path] = "file"

\* the container can emit ev for the tree t: a directory is added before
\* its children, entries are removed only while they exist
StreamOk(t, ev) ==
  LET p == StripTrailingSlashes(ev.path)
  IN CASE ev.type \in {"add_dir", "add_file"} -> p \notin DOMAIN t /\ IsDirIn(t, Dirname(p))
       [] ev.type \in {"remove_dir", "update_directory"} -> p # workdir /\ IsDirIn(t, p)
       [] ev.type \in {"change", "remove_file"} -> IsFileIn(t, p)
       [] OTHER -> FALSE

\* the tree after the change that ev reports; a remove_dir stands for the
\* removal of the directory with everything in it
TreeAfter(t, ev) ==
  LET p == StripTrailingSlashes(ev.path)
  IN CASE ev.type = "add_dir" -> setKey(t, p, "dir")
       [] ev.type = "add_file" -> setKey(t, p, "file")
       [] ev.type = "remove_file" -> setKeyUndefined(t, p)
       [] ev.type = "remove_dir" ->
            [k \in {x \in DOMAIN t : x # p /\ ~StartsWith(x, p \o <<"/">>)} |-> t[k]]
       [] OTHER -> t

WatchStream ==
  \E ev \in WatchEvents :
    /\ nEvents < MaxStreamEvents
    /\ StreamOk(tree, ev)
    /\ tree' = TreeAfter(tree, ev)
    /\ Watch(<<ev>>)
    /\ UNCHANGED ext

\* a correct event stream interleaved with saveFile calls
NextStream ==
  \/ WatchStream
  \/ Flush
  \/ \E c \in CallIds, filePath \in SavePaths, content \in SaveContents : SaveFileBegin(c, filePath, content)
  \/ \E c \in CallIds : SaveFileResolve(c)
  \/ \E c \in CallIds, err \in WriteErrors : SaveFileReject(c, err)

SpecStream == Init /\ [][NextStream]_vars

(* ---------------------------------------------------------------------- *)
(* Exclusion rules (the ignore package)                                    *)
(* ---------------------------------------------------------------------- *)
GitignoreName == <<".", "g", "i", "t", "i", "g", "n", "o", "r", "e">>

\* the rules of the catch block
DefaultRules == {
  <<"n", "o", "d", "e", "_", "m", "o", "d", "u", "l", "e", "s">>,
  <<".", "g", "i", "t">>,
  <<"d", "i", "s", "t">>,
  <<"b", "u", "i", "l", "d">>,
  <<".", "c", "a", "c", "h", "e">>,
  <<"*", ".", "l", "o", "g">>,
  <<".", "D", "S", "_", "S", "t", "o", "r", "e">> }

\* the non-empty lines of a text, in order
RECURSIVE SplitLines(_, _, _)
SplitLines(s, cur, acc) ==
  IF s = <<>>
    THEN (IF cur = <<>> THEN acc ELSE Append(acc, cur))
    ELSE IF Head(s) = "\n"
      THEN SplitLines(Tail(s), <<>>, IF cur = <<>> THEN acc ELSE Append(acc, cur))
      ELSE SplitLines(Tail(s), Append(cur, Head(s)), acc)

\* ignore().add(text): one rule per line
IgnoreAdd(text) == LET lines == SplitLines(text, <<>>, <<>>) IN {lines[i] : i \in DOMAIN lines}

EndsWith(s, suffix) ==
  /\ Len(suffix) <= Len(s)
  /\ SubSeq(s, Len(s) - Len(suffix) + 1, Len(s)) = suffix

\* a rule without a separator inside matches a path segment at any depth: a
\* name, or "*" followed by a suffix; a rule that ends with "/" matches
\* directories only
RuleMatches(rule, segment, isDirectory) ==
  LET dirOnly == rule[Len(rule)] = "/"
      body == IF dirOnly THEN SubSeq(rule, 1, Len(rule) - 1) ELSE rule
  IN /\ dirOnly => isDirectory
     /\ body # <<>>
     /\ IF Head(body) = "*" THEN EndsWith(segment, Tail(body)) ELSE segment = body

\* ig.ignores(path): the path or one of its directories matches a rule; a
\* path without a trailing separator is taken to name a file
Ignores(ig, path) ==
  LET segments == SplitPath(path, <<>>, <<>>)
  IN \E i \in 1..Len(segments), rule \in ig :
       RuleMatches(rule, segments[i], i < Len(segments))

(* ---------------------------------------------------------------------- *)
(* loadFromFileSystem and uploadFile                                        *)
(* ---------------------------------------------------------------------- *)
\* Math.random().toString(36).substring(2, 15)
Ids == {"r1", "r2"}

FileEntry(name, content) == [name |-> name, kind |-> "file", content |-> content]
DirectoryEntry(name) == [name |-> name, kind |-> "directory", content |-> <<>>]

NameLog == <<"e", ".", "l", "o", "g">>
NameDist == <<"d", "i", "s", "t">>
NameB == <<"b">>
NameM == <<"m">>

\* the root .gitignore of the source tree: missing, or present with a text
\* that getFile() or text() fails to deliver, or that is read
GitignoreTexts == {
  <<>>,
  <<"*", ".", "l", "o", "g", "\n">>,
  <<"d", "i", "s", "t", "\n">>,
  <<"d", "i", "s", "t", "/", "\n", "\n", "m", "\n">> }

Sources ==
  {[state |-> "missing", text |-> <<>>]}
    \cup {[state |-> st, text |-> <<"m", "\n">>] : st \in {"noFile", "noText"}}
    \cup {[state |-> "read", text |-> text] : text \in GitignoreTexts}

\* handle.values() of the directory dirPath of the source tree:
\*   [.gitignore]  e.log  dist/b  m
SourceEntries(source, dirPath) ==
  IF dirPath = <<>>
    THEN (IF source.state = "missing" THEN <<>> ELSE <<FileEntry(GitignoreName, source.text)>>)
           \o <<FileEntry(NameLog, <<"1">>), DirectoryEntry(NameDist), FileEntry(NameM, <<"2">>)>>
  ELSE IF dirPath = NameDist THEN <<FileEntry(NameB, <<"3">>)>>
  ELSE <<>>

\* the rules of loadFromFileSystem: the try block, or its catch block
ExclusionRulesWithDefaults(source) ==
  DefaultRules \cup (IF source.state = "read" THEN IgnoreAdd(source.text) ELSE {})
ExclusionRules(source) ==
  IF source.state = "read" THEN IgnoreAdd(source.text) ELSE DefaultRules

\* nodePath.dirname of a relative path
dirname(path) == IF Dirname(path) = <<>> THEN <<".">> ELSE Dirname(path)

\* currentPath ? `${currentPath}/${entry.name}` : entry.name
EntryPath(currentPath, name) ==
  IF currentPath = <<>> THEN name ELSE currentPath \o <<"/">> \o name

\* if (ig.ignores(entryPath)) continue
SkipFile(ig, entry, entryPath) == entry.kind = "file" /\ Ignores(ig, entryPath)
Skip(ig, entry, entryPath) == Ignores(ig, entryPath)

\* a container call of the import, with the entry it is issued for (observer)
ContainerCall(entry, op, path, content) ==
  [entry |-> entry, op |-> op, path |-> path, content |-> content, status |-> "pending"]

\* the container calls for a file entry, in order
FileCallsWriteFirst(entryPath, content) ==
  <<ContainerCall(entryPath, "writeFile", entryPath, content)>>
    \o (IF dirname(entryPath) # <<".">>
          THEN <<ContainerCall(entryPath, "mkdir", dirname(entryPath), <<>>)>> ELSE <<>>)
FileCalls(entryPath, content) ==
  (IF dirname(entryPath) # <<".">>
     THEN <<ContainerCall(entryPath, "mkdir", dirname(entryPath), <<>>)>> ELSE <<>>)
    \o <<ContainerCall(entryPath, "writeFile", entryPath, content)>>

\* the container calls for a directory entry
DirectoryCalls(entryPath) == <<ContainerCall(entryPath, "mkdir", entryPath, <<>>)>>

UploadedFile(id, path, content) == [id |-> id, path |-> path, content |-> content]

\* this.uploadedFiles.set([...this.uploadedFiles.get(), record]); seen is
\* the list as it was when the call began
RecordedOnSeen(list, seen, record) == Append(seen, record)
Recorded(list, seen, record) == Append(list, record)

\* the frames of processDirectory without those whose iterator is exhausted
RECURSIVE Unwind(_)
Unwind(stack) ==
  IF stack = <<>> THEN <<>>
  ELSE IF stack[Len(stack)].rest = <<>> THEN Unwind(SubSeq(stack, 1, Len(stack) - 1))
  ELSE stack

\* loadFromFileSystem(sourceHandle) up to the first processDirectory
LoadFromFileSystemBegin(source) ==
  /\ imp.pc = "idle"
  /\ imp' = [IdleImport EXCEPT !.pc = "walk",
                               !.source = source,
                               !.ig = ExclusionRules(source),
                               !.stack = <<[path |-> <<>>, rest |-> SourceEntries(source, <<>>)]>>]
  /\ UNCHANGED <<storeVars, uploadedFiles, uploads, wcOps, hook>>

\* the for await loop yields the next entry: it is skipped, or read and its
\* first container call issued; a file that cannot be read rejects the import
ProcessDirectoryNext(id, readable) ==
  /\ imp.pc = "walk"
  /\ Unwind(imp.stack) # <<>>
  /\ LET stack == Unwind(imp.stack)
         frame == stack[Len(stack)]
         entry == Head(frame.rest)
         entryPath == EntryPath(frame.path, entry.name)
         rest == [stack EXCEPT ![Len(stack)].rest = Tail(frame.rest)]
         seen == [imp EXCEPT !.stack = rest, !.visited = @ \cup {entryPath}]
         todo == IF entry.kind = "file" THEN FileCalls(entryPath, entry.content)
                 ELSE DirectoryCalls(entryPath)
     IN IF Skip(imp.ig, entry, entryPath)
          THEN /\ imp' = [seen EXCEPT !.skipped = @ \cup {entryPath}]
               /\ wcOps' = wcOps
        ELSE IF entry.kind = "file" /\ ~readable
          THEN /\ imp' = [seen EXCEPT !.pc = "rejected",
                                      !.error = [kind |-> "read", path |-> entryPath]]
               /\ wcOps' = wcOps
        ELSE /\ imp' = [seen EXCEPT !.pc = "call",
                                    !.cur = [path |-> entryPath, kind |-> entry.kind,
                                             content |-> entry.content,
                                             id |-> IF entry.kind = "file" THEN id ELSE "",
                                             todo |-> Tail(todo), seen |-> uploadedFiles]]
             /\ wcOps' = Append(wcOps, Head(todo))
  /\ UNCHANGED <<storeVars, uploadedFiles, uploads, hook>>

\* every iterator is exhausted: loadFromFileSystem resolves
ProcessDirectoryReturn ==
  /\ imp.pc = "walk"
  /\ Unwind(imp.stack) = <<>>
  /\ imp' = [imp EXCEPT !.pc = "done", !.stack = <<>>]
  /\ UNCHANGED <<storeVars, uploadedFiles, uploads, wcOps, hook>>

\* the awaited container call resolves: the next call of the entry is
\* issued, or the file is recorded, or the directory is entered
ContainerResolve ==
  /\ imp.pc = "call"
  /\ LET done == [wcOps EXCEPT ![Len(wcOps)].status = "ok"]
         cur == imp.cur
     IN IF cur.todo # <<>>
          THEN /\ wcOps' = Append(done, Head(cur.todo))
               /\ imp' = [imp EXCEPT !.cur.todo = Tail(cur.todo)]
               /\ uploadedFiles' = uploadedFiles
        ELSE IF cur.kind = "file"
          THEN /\ wcOps' = done
               /\ imp' = [imp EXCEPT !.pc = "walk", !.cur = NoEntry]
               /\ uploadedFiles' = Recorded(uploadedFiles, cur.seen,
                                            UploadedFile(cur.id, cur.path, cur.content))
        ELSE /\ wcOps' = done
             /\ imp' = [imp EXCEPT !.pc = "walk", !.cur = NoEntry,
                                   !.stack = Append(@, [path |-> cur.path,
                                                         rest |-> SourceEntries(imp.source, cur.path)])]
             /\ uploadedFiles' = uploadedFiles
  /\ UNCHANGED <<storeVars, uploads, hook>>

\* the awaited container call rejects: loadFromFileSystem rejects
ContainerReject ==
  /\ imp.pc = "call"
  /\ wcOps' = [wcOps EXCEPT ![Len(wcOps)].status = "failed"]
  /\ imp' = [imp EXCEPT !.pc = "rejected",
                        !.error = [kind |-> wcOps[Len(wcOps)].op, path |-> wcOps[Len(wcOps)].path]]
  /\ UNCHANGED <<storeVars, uploadedFiles, uploads, hook>>

\* the files handed to uploadFile
UploadNames == {<<"u">>}
UploadContents == {<<"7">>}

NextUpload(u) == uploads[u].pc = "idle" /\ \A v \in UploadIds : v < u => uploads[v].pc # "idle"

\* uploadFile(file) up to the await of wc.fs.writeFile
UploadFileBegin(u, name, content, id) ==
  /\ NextUpload(u)
  /\ uploads' = [uploads EXCEPT ![u] = [pc |-> "writing", name |-> name, content |-> content,
                                        id |-> id, seen |-> uploadedFiles]]
  /\ UNCHANGED <<storeVars, uploadedFiles, imp, wcOps, hook>>

\* the write resolves: the file is recorded
UploadFileResolve(u) ==
  /\ uploads[u].pc = "writing"
  /\ uploadedFiles' = Recorded(uploadedFiles, uploads[u].seen,
                               UploadedFile(uploads[u].id, uploads[u].name, uploads[u].content))
  /\ uploads' = [uploads EXCEPT ![u].pc = "done"]
  /\ UNCHANGED <<storeVars, imp, wcOps, hook>>

\* the write rejects: uploadFile rejects
UploadFileReject(u) ==
  /\ uploads[u].pc = "writing"
  /\ uploads' = [uploads EXCEPT ![u].pc = "rejected"]
  /\ UNCHANGED <<storeVars, uploadedFiles, imp, wcOps, hook>>

\* an import of the source tree
NextImport ==
  \/ \E source \in Sources : LoadFromFileSystemBegin(source)
  \/ \E id \in Ids, readable \in BOOLEAN : ProcessDirectoryNext(id, readable)
  \/ ProcessDirectoryReturn
  \/ ContainerResolve
  \/ ContainerReject

SpecImport == Init /\ [][NextImport]_vars

\* an import of the source tree without a .gitignore, interleaved with uploads
NextUploads ==
  \/ \E source \in {src \in Sources : src.state = "missing"} : LoadFromFileSystemBegin(source)
  \/ \E id \in Ids, readable \in BOOLEAN : ProcessDirectoryNext(id, readable)
  \/ ProcessDirectoryReturn
  \/ ContainerResolve
  \/ ContainerReject
  \/ \E u \in UploadIds, name \in UploadNames, content \in UploadContents, id \in Ids :
       UploadFileBegin(u, name, content, id)
  \/ \E u \in UploadIds : UploadFileResolve(u)
  \/ \E u \in UploadIds : UploadFileReject(u)

SpecUploads == Init /\ [][NextUploads]_vars

(* ---------------------------------------------------------------------- *)
(* useFileUploads                                                           *)
(* ---------------------------------------------------------------------- *)
\* uploadedFiles.filter(file => !processedFiles.current.has(file.id))
NewFiles(list, processed) == SelectSeq(list, LAMBDA file : file.id \notin processed)

Message(file) == [id |-> file.id, role |-> "assistant", path |-> file.path, content |-> file.content]

\* newFiles.forEach(file => processedFiles.current.add(file.id))
ProcessedUnchanged(processed, newFiles) == processed
Processed(processed, newFiles) == processed \cup {newFiles[i].id : i \in DOMAIN newFiles}

\* processNewUploads up to its await, with the list of its closure
processNewUploads(h, list) ==
  LET newFiles == NewFiles(list, h.processed)
  IN IF Len(newFiles) = 0 THEN h
     ELSE [h EXCEPT !.processed = Processed(h.processed, newFiles),
                    !.messages = @ \o [i \in DOMAIN newFiles |-> Message(newFiles[i])],
                    !.awaiting = @ + 1]

\* useStore: the component renders with the changed list
HookRender ==
  /\ hook.rendered # uploadedFiles
  /\ hook' = [hook EXCEPT !.rendered = uploadedFiles, !.effectPending = TRUE]
  /\ UNCHANGED <<storeVars, uploadedFiles, uploads, imp, wcOps>>

\* useEffect(() => { processNewUploads() }, [uploadedFiles])
HookEffect ==
  /\ hook.effectPending
  /\ hook' = [processNewUploads(hook, hook.rendered) EXCEPT !.effectPending = FALSE]
  /\ UNCHANGED <<storeVars, uploadedFiles, uploads, imp, wcOps>>

\* the caller of the hook invokes the processNewUploads it was returned
HookInvoke ==
  /\ hook' = processNewUploads(hook, hook.rendered)
  /\ UNCHANGED <<storeVars, uploadedFiles, uploads, imp, wcOps>>

\* storeMessageHistory settles: an invocation runs to its end
StoreMessageHistorySettles ==
  /\ hook.awaiting > 0
  /\ hook' = [hook EXCEPT !.awaiting = @ - 1]
  /\ UNCHANGED <<storeVars, uploadedFiles, uploads, imp, wcOps>>

\* uploads, and the hook that turns their records into messages
NextHook ==
  \/ \E u \in UploadIds, name \in UploadNames, content \in UploadContents, id \in Ids :
       UploadFileBegin(u, name, content, id)
  \/ \E u \in UploadIds : UploadFileResolve(u)
  \/ \E u \in UploadIds : UploadFileReject(u)
  \/ HookRender
  \/ HookEffect
  \/ HookInvoke
  \/ StoreMessageHistorySettles

SpecHook == Init /\ [][NextHook]_vars

(* ---------------------------------------------------------------------- *)
(* A watcher that reports paths with trailing separators                   *)
(* ---------------------------------------------------------------------- *)
MaxSlashEvents == 3
MaxSlashes == 2

Slashes(n) == [i \in 1..n |-> "/"]

\* the paths the watcher reports: PathS and PathSA with no, one or two
\* trailing separators
SlashBases == {PathS, PathSA}
SlashPaths == {base \o Slashes(n) : base \in SlashBases, n \in 0..MaxSlashes}

SlashEvents ==
  {Event(t, p, NoBuffer) : t \in {"add_dir", "remove_dir"}, p \in SlashPaths}
    \cup {Event("add_file", PathSA \o Slashes(n), Buf(<<120>>)) : n \in 0..1}
    \cup {Event("remove_file", PathSA \o Slashes(n), NoBuffer) : n \in 0..1}

WatchSlash ==
  \E ev \in SlashEvents : nEvents < MaxSlashEvents /\ Watch(<<ev>>) /\ UNCHANGED <<tree, ext>>

NextSlash == WatchSlash \/ Flush

SpecSlash == Init /\ [][NextSlash]_vars

\* the reconciler alone: the watcher, the batcher and #processEventBuffer
NextReconciler == WatchReconciler \/ Flush

SpecReconciler == Init /\ [][NextReconciler]_vars

\* the store: watch events interleaved with saveFile and resetFileModifications
Next ==
  \/ WatchStore
  \/ Flush
  \/ \E c \in CallIds, filePath \in SavePaths, content \in SaveContents : SaveFileBegin(c, filePath, content)
  \/ \E c \in CallIds : SaveFileResolve(c)
  \/ \E c \in CallIds, err \in WriteErrors : SaveFileReject(c, err)
  \/ ResetFileModifications

Spec == Init /\ [][Next]_vars

TypeOK ==
  /\ size \in Int
  /\ \A c \in CallIds : calls[c].pc \in {"idle", "writing"}
  /\ settled.pc \in {"idle", "done", "rejected"}

(* ---------------------------------------------------------------------- *)
(* Properties of the reconciler (checked under SpecReconciler)             *)
(* ---------------------------------------------------------------------- *)
\* a step of Flush, and the events it hands to the for loop
FlushStep == eventBuffer # <<>> /\ eventBuffer' = <<>>
Batch == Flat2(eventBuffer)

\* the store after the first i events of the pending batch
AfterPrefix(i) == ApplyEvents(StoreState, SubSeq(Batch, 1, i))

\* key has dir as a proper path-prefix
IsDescendant(key, dir) == StartsWith(key, dir \o <<"/">>) /\ Len(key) > Len(dir) + 1
AtOrUnder(key, dir) == key = dir \/ IsDescendant(key, dir)

SameEntry(f, g, key) ==
  /\ Present(f, key) <=> Present(g, key)
  /\ Present(f, key) => f[key] = g[key]

\* C1: once a remove_dir event for P is applied, P and every key with P as a
\* proper path-prefix are absent from the FileMap.
C1_RemoveDirCascades ==
  [][FlushStep =>
       /\ files' = AfterPrefix(Len(Batch)).files
       /\ \A i \in 1..Len(Batch) :
            Batch[i].type = "remove_dir" =>
              \A key \in DOMAIN AfterPrefix(i).files :
                ~AtOrUnder(key, StripTrailingSlashes(Batch[i].path))]_vars

\* C2: a remove_dir event for P leaves every entry whose key is neither P nor
\* a descendant of P as it was, also a key that extends P without a separator.
C2_RemoveDirFrame ==
  [][FlushStep =>
       /\ files' = AfterPrefix(Len(Batch)).files
       /\ \A i \in 1..Len(Batch) :
            Batch[i].type = "remove_dir" =>
              \A key \in DOMAIN AfterPrefix(i - 1).files \cup DOMAIN AfterPrefix(i).files :
                ~AtOrUnder(key, StripTrailingSlashes(Batch[i].path)) =>
                  SameEntry(AfterPrefix(i - 1).files, AfterPrefix(i).files, key)]_vars

\* a remove_dir for PathS was applied last and spared the sibling PathS2,
\* whose name extends PathS as a string
C2_Witness ==
  /\ lastEvent.type = "remove_dir"
  /\ StripTrailingSlashes(lastEvent.path) = PathS
  /\ eventBuffer = <<>>
  /\ IsFile(files, PathS2)
  /\ ~Present(files, PathS)

\* the batch adds directories and files at or under dir and ends with remove_dir dir
AddsThenRemovesDir(batch, dir) ==
  /\ Len(batch) >= 2
  /\ batch[Len(batch)].type = "remove_dir"
  /\ StripTrailingSlashes(batch[Len(batch)].path) = dir
  /\ \A i \in 1..(Len(batch) - 1) :
       /\ batch[i].type \in {"add_dir", "add_file"}
       /\ AtOrUnder(StripTrailingSlashes(batch[i].path), dir)

\* C3: a batch that adds directories and files under P and ends with
\* remove_dir P leaves no entry at or under P and filesCount as before the batch.
C3_AddThenRemoveDirBatch ==
  [][FlushStep =>
       \A dir \in {StripTrailingSlashes(p) : p \in DirPaths} :
         AddsThenRemovesDir(Batch, dir) =>
           /\ \A key \in DOMAIN files' : ~AtOrUnder(key, dir)
           /\ size' = size]_vars

\* C4: when a run add_file(p), change(p)*, remove_file(p) has been applied, in
\* one batch or across batches, p is absent and filesCount is what it was
\* before the add_file.
C4_AddChangeRemove ==
  [][FlushStep =>
       /\ files' = AfterPrefix(Len(Batch)).files /\ size' = AfterPrefix(Len(Batch)).size
       /\ \A i \in 1..Len(Batch) :
            LET st == AfterPrefix(i)
            IN st.mon.phase = "closed" =>
                 /\ Batch[i].type = "remove_file"
                 /\ ~Present(st.files, st.mon.path)
                 /\ st.size = st.mon.base]_vars

\* a run with a change event, split over batches, has just been completed
C4_Witness ==
  /\ mon.phase = "closed"
  /\ mon.changes >= 1
  /\ mon.split
  /\ eventBuffer = <<>>
  /\ ~Present(files, mon.path)
  /\ size = mon.base

\* the entry an event writes at its own path
WrittenBy(ev) ==
  CASE ev.type = "add_dir" -> [present |-> TRUE, dirent |-> FolderDirent]
    [] ev.type \in {"add_file", "change"} ->
         [present |-> TRUE,
          dirent |-> IF isBinaryFile(ev.buffer) THEN FileDirent(<<>>, TRUE)
                     ELSE FileDirent(decodeFileContent(ev.buffer), FALSE)]
    [] OTHER -> [present |-> FALSE, dirent |-> FolderDirent]

\* the index of the last event of the batch that writes key, 0 if none does
LastFor(batch, key) ==
  LET hits == {i \in 1..Len(batch) : /\ batch[i].type # "update_directory"
                                     /\ StripTrailingSlashes(batch[i].path) = key}
  IN IF hits = {} THEN 0 ELSE CHOOSE i \in hits : \A j \in hits : j <= i

\* C10: after a batch, the entry of every path that the batch has events for is
\* the one its last event for that path writes; a change after an add_file wins.
C10_LastEventWins ==
  [][FlushStep =>
       \A i \in 1..Len(Batch) :
         LET key == StripTrailingSlashes(Batch[i].path)
             n == LastFor(Batch, key)
         IN n > 0 =>
              /\ Present(files', key) <=> WrittenBy(Batch[n]).present
              /\ Present(files', key) => files'[key] = WrittenBy(Batch[n]).dirent]_vars

\* a batch held add_file(p) and then change(p) with a binary buffer: the
\* entry is the change's
C10_Witness ==
  /\ mon.phase = "open"
  /\ mon.changes >= 1
  /\ ~mon.split
  /\ eventBuffer = <<>>
  /\ lastEvent.type = "change"
  /\ isBinaryFile(lastEvent.buffer)
  /\ files[mon.path] = FileDirent(<<>>, TRUE)

(* ---------------------------------------------------------------------- *)
(* Properties of saveFile and the ledger (checked under Spec)              *)
(* ---------------------------------------------------------------------- *)
\* a step of resetFileModifications that clears entries
ResetStep == modifiedFiles # <<>> /\ modifiedFiles' = <<>>

\* call c settles in this step with the given outcome
Settles(c, outcome) ==
  /\ calls[c].pc = "writing"
  /\ calls'[c].pc = "idle"
  /\ settled'.pc = outcome

\* saveFile throws before it issues a write
ThrowsStep == calls' = calls /\ settled' # settled /\ settled'.pc = "rejected"

\* C5: an original held by the ledger is changed by no saveFile and no watch
\* event; only resetFileModifications removes it.
C5_OriginalIsStable ==
  [][\A p \in DOMAIN modifiedFiles :
       \/ ResetStep
       \/ Present(modifiedFiles', p) /\ modifiedFiles'[p] = modifiedFiles[p]]_vars

\* a later saveFile on a path the ledger holds has completed: its pre-write
\* content differs from the original, which the ledger kept
C5_Witness ==
  /\ settled.pc = "done"
  /\ Present(modifiedFiles, settled.filePath)
  /\ modifiedFiles[settled.filePath] # settled.oldContent
  /\ files[settled.filePath] = FileDirent(settled.content, FALSE)

\* C6: every original the ledger holds is the content the FileMap held at the
\* path right before the first tree update by saveFile since the last reset.
C6_OriginalIsFirstEditContent ==
  \A p \in DOMAIN modifiedFiles :
    /\ Present(firstEdit, p)
    /\ firstEdit[p].defined
    /\ firstEdit[p].content = modifiedFiles[p]

\* C7: a saveFile that completes has issued one container write, with the
\* workdir-relative path and its content; the entry is then the text file with
\* that content, a ledger without an original now holds the pre-write content,
\* and filesCount is unchanged.
C7_SaveFileSuccess ==
  [][\A c \in CallIds :
       Settles(c, "done") =>
         LET call == calls[c]
         IN /\ Len(settled'.writes) = 1
            /\ workdir \o <<"/">> \o settled'.writes[1].path = call.filePath
            /\ settled'.writes[1].content = call.content
            /\ files'[call.filePath] = [type |-> "file", content |-> call.content, isBinary |-> FALSE]
            /\ ~Present(modifiedFiles, call.filePath) =>
                 modifiedFiles'[call.filePath] = call.preWrite
            /\ size' = size]_vars

\* a saveFile has completed on a file: one write, the entry holds its
\* content and the ledger the content it replaced
C7_Witness ==
  /\ settled.pc = "done"
  /\ Len(settled.writes) = 1
  /\ settled.content # settled.preWrite
  /\ files[settled.filePath] = FileDirent(settled.content, FALSE)
  /\ Present(modifiedFiles, settled.filePath)
  /\ modifiedFiles[settled.filePath] = settled.preWrite

\* C8: when the container write fails, saveFile rejects with the error of the
\* write and changes neither the FileMap nor the ledger.
C8_WriteFailure ==
  [][\A c \in CallIds :
       Settles(c, "rejected") =>
         /\ settled'.result \in WriteErrors
         /\ settled'.error = settled'.result
         /\ files' = files
         /\ modifiedFiles' = modifiedFiles]_vars

\* a saveFile was rejected by a failed write: the file holds its old content
\* and the ledger has no original for it
C8_Witness ==
  /\ settled.pc = "rejected"
  /\ settled.result \in WriteErrors
  /\ settled.error = settled.result
  /\ IsFile(files, settled.filePath)
  /\ files[settled.filePath].content = settled.preWrite
  /\ ~Present(modifiedFiles, settled.filePath)

\* C9: saveFile throws the unreachable error exactly when the path is no File
\* entry (absent or a Folder), then without a write or a change of state;
\* on every File entry, also one with content '', it goes on to the write.
C9_UnreachableIffNoFile ==
  [][/\ (ThrowsStep /\ settled'.error = unreachable("Expected content to be defined")) =>
          /\ ~IsFile(files, settled'.filePath)
          /\ settled'.writes = <<>>
          /\ files' = files /\ modifiedFiles' = modifiedFiles /\ size' = size
     /\ \A c \in CallIds :
          (calls[c].pc = "idle" /\ calls'[c].pc = "writing") =>
            IsFile(files, calls'[c].filePath)]_vars

\* C15: when saveFile calls on one path overlap at their awaited writes, the
\* entry after each write that resolves holds the content of that write, and
\* a write that fails leaves the entry alone: once all of them have completed
\* the entry holds the content of the write that resolved last.
C15_LastResolvedWriteWins ==
  [][\A c \in CallIds :
       (calls[c].pc = "writing" /\ calls[c].overlap) =>
         /\ Settles(c, "done") =>
              /\ IsFile(files', calls[c].filePath)
              /\ files'[calls[c].filePath].content = calls[c].content
         /\ Settles(c, "rejected") => files' = files]_vars

\* two overlapping calls on one path have both completed, the one with the
\* other content last: the entry holds its content
C15_Witness ==
  /\ settled.pc = "done"
  /\ settled.overlap
  /\ InFlightOn(settled.filePath) = {}
  /\ settled.content # settled.preWrite
  /\ Present(modifiedFiles, settled.filePath)
  /\ modifiedFiles[settled.filePath] = settled.oldContent
  /\ settled.oldContent # <<>>
  /\ settled.content = <<>>
  /\ files[settled.filePath] = FileDirent(settled.content, FALSE)

(* ---------------------------------------------------------------------- *)
(* Properties of the store under a correct event stream (SpecStream)       *)
(* ---------------------------------------------------------------------- *)
\* C11: every File entry has all its directories below the watched root
\* present as Folder entries.
C11_NoOrphanFile ==
  \A key \in DOMAIN files :
    IsFile(files, key) => \A dir \in AncestorsBelowRoot(key) : IsFolder(files, dir)

\* C18: every File entry with isBinary true has empty content, and the entry
\* a completed saveFile stores has isBinary false.
C18_BinaryHasNoContent ==
  [][/\ \A key \in DOMAIN files' :
          (IsFile(files', key) /\ files'[key].isBinary) => files'[key].content = <<>>
     /\ \A c \in CallIds :
          Settles(c, "done") => ~files'[calls[c].filePath].isBinary]_vars

\* a binary buffer has been reconciled into an entry, next to an entry that
\* saveFile wrote
C18_Witness ==
  /\ \E key \in DOMAIN files : IsFile(files, key) /\ files[key].isBinary /\ files[key].content = <<>>
  /\ settled.pc = "done"
  /\ files[settled.filePath] = FileDirent(settled.content, FALSE)

\* C19: filesCount is not negative and is the number of File entries.
C19_CountIsNumberOfFiles ==
  /\ size >= 0
  /\ size = Cardinality({key \in DOMAIN files : IsFile(files, key)})

(* ---------------------------------------------------------------------- *)
(* Path normalisation (checked under SpecSlash)                            *)
(* ---------------------------------------------------------------------- *)
\* the reported path without its trailing separators
BaseOf(path) == CHOOSE base \in SlashBases : \E n \in 0..MaxSlashes : path = base \o Slashes(n)
WithBasePath(ev) == [ev EXCEPT !.path = BaseOf(ev.path)]

\* C17: a batch has the effect on the FileMap of the same events with their
\* paths without trailing slashes, and no key of the FileMap ends with a slash.
C17_TrailingSlashesStripped ==
  [][FlushStep =>
       /\ files' = ApplyEvents(StoreState, [i \in 1..Len(Batch) |-> WithBasePath(Batch[i])]).files
       /\ \A key \in DOMAIN files' : key[Len(key)] # "/"]_vars

\* add_dir with two trailing slashes was applied last: the folder is at the
\* path without them
C17_Witness ==
  /\ lastEvent.type = "add_dir"
  /\ lastEvent.path = PathS \o <<"/", "/">>
  /\ eventBuffer = <<>>
  /\ DOMAIN files = {PathS}
  /\ IsFolder(files, PathS)

(* ---------------------------------------------------------------------- *)
(* Properties of loadFromFileSystem (SpecImport) and of the uploadedFiles  *)
(* list (SpecUploads)                                                       *)
(* ---------------------------------------------------------------------- *)
\* the entries of a directory of the source tree, with their relative paths
EntriesIn(source, dirPath) ==
  LET entries == SourceEntries(source, dirPath)
  IN {[path |-> EntryPath(dirPath, entries[i].name), kind |-> entries[i].kind,
       content |-> entries[i].content] : i \in DOMAIN entries}

\* every entry of the source tree
AllEntries(source) ==
  EntriesIn(source, <<>>)
    \cup UNION {EntriesIn(source, dir.path) :
                  dir \in {e \in EntriesIn(source, <<>>) : e.kind = "directory"}}

\* the directories of a relative path
DirectoriesOf(path) == {SubSeq(path, 1, i - 1) : i \in {j \in 1..Len(path) : path[j] = "/"}}

RecordsOf(path) == {k \in DOMAIN uploadedFiles : uploadedFiles[k].path = path}

Written(path, content) ==
  \E i \in DOMAIN wcOps :
    wcOps[i] = [entry |-> path, op |-> "writeFile", path |-> path, content |-> content,
                status |-> "ok"]

\* C12: for an entry whose relative path the rules match, no container call is
\* issued and no record appended, and nothing beneath it is visited; when the
\* import has completed, every file that is not excluded and not under an
\* excluded directory is written and has exactly one record, with its
\* relative path and content.
C12_ExcludedEntriesUntouched ==
  imp.pc # "idle" =>
    \A e \in AllEntries(imp.source) :
      /\ Ignores(imp.ig, e.path) =>
           /\ \A i \in DOMAIN wcOps : wcOps[i].path # e.path
           /\ RecordsOf(e.path) = {}
           /\ \A v \in imp.visited : ~IsDescendant(v, e.path)
      /\ Cardinality(RecordsOf(e.path)) <= 1
      /\ ( /\ imp.pc = "done"
           /\ e.kind = "file"
           /\ ~Ignores(imp.ig, e.path)
           /\ \A dir \in DirectoriesOf(e.path) : ~Ignores(imp.ig, dir) ) =>
           /\ Written(e.path, e.content)
           /\ Cardinality(RecordsOf(e.path)) = 1
           /\ \A k \in RecordsOf(e.path) : uploadedFiles[k].content = e.content

\* the import with the rule *.log has completed: e.log was skipped, m and
\* dist/b are recorded
C12_Witness ==
  /\ imp.pc = "done"
  /\ imp.source.state = "read"
  /\ imp.ig = {<<"*", ".", "l", "o", "g">>}
  /\ NameLog \in imp.skipped
  /\ RecordsOf(NameLog) = {}
  /\ RecordsOf(NameM) # {}
  /\ RecordsOf(EntryPath(NameDist, NameB)) # {}

C14_AppendOnly ==
  [][/\ \/ uploadedFiles' = uploadedFiles
        \/ /\ Len(uploadedFiles') = Len(uploadedFiles) + 1
           /\ SubSeq(uploadedFiles', 1, Len(uploadedFiles)) = uploadedFiles
     /\ \A u \in UploadIds :
          (uploads[u].pc = "writing" /\ uploads'[u].pc = "done") =>
            uploadedFiles' = Append(uploadedFiles,
                                    [id |-> uploads[u].id, path |-> uploads[u].name,
                                     content |-> uploads[u].content])
     /\ (imp.pc = "call" /\ imp'.pc = "walk" /\ imp.cur.kind = "file") =>
          uploadedFiles' = Append(uploadedFiles,
                                  [id |-> imp.cur.id, path |-> imp.cur.path,
                                   content |-> imp.cur.content])]_vars

\* two uploads that began on the same list have both been recorded, with a
\* record of the import between them
C14_Witness ==
  /\ uploads[1].pc = "done"
  /\ uploads[2].pc = "done"
  /\ uploads[1].seen = uploads[2].seen
  /\ Len(uploadedFiles) >= 3
  /\ uploadedFiles[1].path \in UploadNames
  /\ uploadedFiles[2].path \notin UploadNames
  /\ uploadedFiles[3].path \in UploadNames

\* C16: the write of a file below the root is issued right after the mkdir
\* that the import issued for this file has succeeded; every record of the import has a successful
\* write of its path and content; the mkdir of a directory has succeeded
\* before an entry of it is visited.
C16_ImportOrder ==
  /\ \A i \in DOMAIN wcOps :
       (wcOps[i].op = "writeFile" /\ dirname(wcOps[i].path) # <<".">>) =>
         /\ i > 1
         /\ wcOps[i - 1] = [entry |-> wcOps[i].path, op |-> "mkdir",
                            path |-> dirname(wcOps[i].path), content |-> <<>>, status |-> "ok"]
  /\ \A k \in DOMAIN uploadedFiles :
       uploadedFiles[k].path \notin UploadNames =>
         Written(uploadedFiles[k].path, uploadedFiles[k].content)
  /\ \A path \in imp.visited :
       dirname(path) # <<".">> =>
         \E j \in DOMAIN wcOps :
           wcOps[j].op = "mkdir" /\ wcOps[j].path = dirname(path) /\ wcOps[j].status = "ok"

\* dist/b has been recorded: mkdir dist for the directory, mkdir dist and
\* the write for the file
C16_Witness ==
  /\ RecordsOf(EntryPath(NameDist, NameB)) # {}
  /\ \E i \in DOMAIN wcOps :
       /\ i > 2
       /\ wcOps[i].op = "writeFile" /\ wcOps[i].path = EntryPath(NameDist, NameB)
       /\ wcOps[i].status = "ok"
       /\ wcOps[i - 1].op = "mkdir" /\ wcOps[i - 2].op = "mkdir"

(* ---------------------------------------------------------------------- *)
(* Properties of useFileUploads (SpecHook)                                  *)
(* ---------------------------------------------------------------------- *)
MessagesFor(id) == {k \in DOMAIN hook.messages : hook.messages[k].id = id}

\* C20: a record whose id no other record has is the source of at most one
\* message, and of exactly one once the effect of the render with the
\* current list has run.
C20_OneMessagePerRecord ==
  \A i \in DOMAIN uploadedFiles :
    (\A j \in DOMAIN uploadedFiles : j # i => uploadedFiles[j].id # uploadedFiles[i].id) =>
      /\ Cardinality(MessagesFor(uploadedFiles[i].id)) <= 1
      /\ \A k \in MessagesFor(uploadedFiles[i].id) :
           hook.messages[k] = Message(uploadedFiles[i])
      /\ (hook.rendered = uploadedFiles /\ ~hook.effectPending) =>
           Cardinality(MessagesFor(uploadedFiles[i].id)) = 1

\* two records with distinct ids were processed by invocations that both
\* still await storeMessageHistory: one message each
C20_Witness ==
  /\ Len(uploadedFiles) = 2
  /\ uploadedFiles[1].id # uploadedFiles[2].id
  /\ hook.rendered = uploadedFiles
  /\ ~hook.effectPending
  /\ hook.awaiting = 2
  /\ Len(hook.messages) = 2
  /\ hook.messages[1].id = uploadedFiles[1].id
  /\ hook.messages[2].id = uploadedFiles[2].id

====
